---- MODULE Spec2Model ----
(***************************************************************************)
(* Maldives-Rainfall: the dashboard component (src/src/App.tsx) and the    *)
(* weather proxy route (src/unnamed/part_002).                             *)
(*                                                                         *)
(* Four specifications share the variables below:                          *)
(*   Spec      - the App component: fetchData calls in flight, the city    *)
(*               menu, the refresh and retry buttons;                      *)
(*   StatsSpec - the chartData / stats derivations applied to every        *)
(*               response of a bounded set that fetchData accepts;         *)
(*   ProxySpec - one GET /api/weather request through the proxy handler;   *)
(*   ClockSpec - the one-second clock and cityLocalTime, for every zone    *)
(*               of the browser and UTC offset of the stored response.     *)
(*                                                                         *)
(* Encodings.  A date key 'YYYY-MM-DD' of 2026 is its day of the year, so  *)
(* '2026-02-26' is 57.  A rainfall amount is a JavaScript number, kept     *)
(* here as an exact fraction num/den of tenths of a millimetre, or one of  *)
(* the non-numbers NaN, undefined, -Infinity.  JavaScript indices are      *)
(* 0-based; At and Slice below take 0-based indices as the code does.      *)
(* formattedDate and dayName of a chart record are display strings that    *)
(* no derivation reads; they are left out of the record.                   *)
(***************************************************************************)
EXTENDS Integers, Sequences, FiniteSets

VARIABLES
    selectedCity,    \* useState selectedCity: index into MALDIVES_CITIES
    data,            \* useState data: Null or the stored WeatherResponse
    loading,         \* useState loading
    error,           \* useState error: NoError (null) or a message
    refreshing,      \* useState refreshing
    isCityMenuOpen,  \* useState isCityMenuOpen
    mounted,         \* whether the mount effect has run
    calls,           \* the fetchData calls started so far, in start order
    chartData,       \* useMemo chartData
    stats,           \* useMemo stats
    derived,         \* whether chartData and stats are those of data
    proxy,           \* the proxy handler's request, position and response
    currentTime,     \* useState currentTime: an instant, in milliseconds
    zone,            \* the time zone of the browser that runs the App
    cityLocalTime    \* useMemo cityLocalTime: an instant, in milliseconds

vars == <<selectedCity, data, loading, error, refreshing, isCityMenuOpen,
          mounted, calls, chartData, stats, derived, proxy, currentTime, zone,
          cityLocalTime>>

appVars == <<selectedCity, data, loading, error, refreshing, isCityMenuOpen,
             mounted, calls, chartData, stats, derived, currentTime, zone,
             cityLocalTime>>

----------------------------------------------------------------------------
(* Bounds *)

\* longest series of StatsSpec
MaxLen == 8
\* number of fetchData calls started in one behaviour of Spec
MaxCalls == 3
\* number of cities of MALDIVES_CITIES in the menu
NumCities == 2
\* seconds of clock ticks followed in ClockSpec
MaxSeconds == 4

----------------------------------------------------------------------------
(* JavaScript values *)

Null == [kind |-> "null"]

Num(n) == [kind |-> "number", num |-> n, den |-> 1]

NaN == [kind |-> "NaN", num |-> 0, den |-> 1]

Undefined == [kind |-> "undefined", num |-> 0, den |-> 1]

NegInfinity == [kind |-> "-Infinity", num |-> 0, den |-> 1]

IsNumber(a) == a.kind = "number"

\* a + b on numbers; undefined or NaN as an operand gives NaN
Add(a, b) ==
    IF IsNumber(a) /\ IsNumber(b)
    THEN [kind |-> "number", num |-> a.num * b.den + b.num * a.den,
          den |-> a.den * b.den]
    ELSE NaN

\* a / n for an array length n; 0 / 0 is NaN (the sum of no records is 0)
Div(a, n) ==
    IF IsNumber(a) /\ n > 0
    THEN [kind |-> "number", num |-> a.num, den |-> a.den * n]
    ELSE NaN

\* a >= b; false when either side converts to NaN
Gte(a, b) ==
    /\ IsNumber(a)
    /\ IsNumber(b)
    /\ a.num * b.den >= b.num * a.den

\* a === b on numbers
NumEq(a, b) == IsNumber(a) /\ IsNumber(b) /\ a.num * b.den = b.num * a.den

\* Math.max(...xs): -Infinity of nothing, NaN if any argument is not a number
MathMax(xs) ==
    IF Len(xs) = 0 THEN NegInfinity
    ELSE IF \E i \in 1..Len(xs) : ~IsNumber(xs[i]) THEN NaN
    ELSE xs[CHOOSE i \in 1..Len(xs) : \A j \in 1..Len(xs) : Gte(xs[i], xs[j])]

\* xs[i], 0-based; undefined outside the array
At(xs, i) == IF i >= 0 /\ i < Len(xs) THEN xs[i + 1] ELSE Undefined

\* xs.slice(from, to): 0-based, to exclusive, a negative from counts from the end
Slice(xs, from, to) ==
    LET n == Len(xs)
        lo == IF from < 0 THEN (IF n + from < 0 THEN 0 ELSE n + from)
              ELSE (IF from > n THEN n ELSE from)
        hi == IF to > n THEN n ELSE to
    IN  IF hi <= lo THEN <<>> ELSE [k \in 1..(hi - lo) |-> xs[lo + k]]

\* xs.findIndex(d => d.date === key): first match, -1 if none
FindIndex(xs, key) ==
    IF \E i \in 1..Len(xs) : xs[i].date = key
    THEN (CHOOSE i \in 1..Len(xs) :
            /\ xs[i].date = key
            /\ \A j \in 1..(i - 1) : xs[j].date # key) - 1
    ELSE -1

\* xs.reduce((acc, curr) => acc + curr.amount, 0)
RECURSIVE ReduceAmounts(_, _)
ReduceAmounts(xs, acc) ==
    IF Len(xs) = 0 THEN acc
    ELSE ReduceAmounts(Tail(xs), Add(acc, Head(xs).amount))

----------------------------------------------------------------------------
(* The derivations of App *)

todayStr == 57

\* chartData: one record per entry of daily.time, the amount read at the same
\* index of daily.precipitation_sum
ChartData(d) ==
    IF d = Null THEN <<>>
    ELSE [i \in 1..Len(d.daily.time) |->
            [date |-> d.daily.time[i],
             amount |-> At(d.daily.precipitation_sum, i - 1)]]

\* line 115: the index of the record whose date is todayStr, -1 if none
TodayIndex(cd) == FindIndex(cd, todayStr)

\* line 119: the record reported as today, the last record when todayStr is absent
TodayData(cd) ==
    IF TodayIndex(cd) # -1 THEN At(cd, TodayIndex(cd)) ELSE At(cd, Len(cd) - 1)

WeeklyDataEightRecords(cd) ==
    IF TodayIndex(cd) # -1
    THEN Slice(cd, IF TodayIndex(cd) - 7 > 0 THEN TodayIndex(cd) - 7 ELSE 0,
               TodayIndex(cd) + 1)
    ELSE Slice(cd, -7, Len(cd))

WeeklyDataFirstSeven(cd) ==
    IF TodayIndex(cd) # -1
    THEN Slice(cd, IF TodayIndex(cd) - 6 > 0 THEN TodayIndex(cd) - 6 ELSE 0,
               TodayIndex(cd) + 1)
    ELSE Slice(cd, 0, 7)

\* lines 122-124: the 7 records ending today, or the last 7 records
WeeklyData(cd) ==
    IF TodayIndex(cd) # -1
    THEN Slice(cd, IF TodayIndex(cd) - 6 > 0 THEN TodayIndex(cd) - 6 ELSE 0,
               TodayIndex(cd) + 1)
    ELSE Slice(cd, -7, Len(cd))

\* line 126
Total(weeklyData) == ReduceAmounts(weeklyData, Num(0))

AvgOverSeven(total, weeklyData) == Div(total, 7)

\* line 127
Avg(total, weeklyData) == Div(total, Len(weeklyData))

PeakOfWeek(cd) == MathMax([i \in 1..Len(WeeklyData(cd)) |-> WeeklyData(cd)[i].amount])

\* line 128: the peak over every record of chartData
Peak(cd) == MathMax([i \in 1..Len(cd) |-> cd[i].amount])

\* lines 131-132: yesterdayData?.amount ?? 0
Yesterday(cd) ==
    IF TodayIndex(cd) > 0
    THEN (IF At(cd, TodayIndex(cd) - 1).amount = Undefined THEN Num(0)
          ELSE At(cd, TodayIndex(cd) - 1).amount)
    ELSE Num(0)

\* line 133
Trend(today, yesterday) == IF Gte(today, yesterday) THEN "up" ELSE "down"

\* lines 129-135: the statistics object of a non-empty chartData
StatsObject(cd) ==
    [kind |-> "stats",
     total |-> Total(WeeklyData(cd)),
     avg |-> Avg(Total(WeeklyData(cd)), WeeklyData(cd)),
     max |-> Peak(cd),
     today |-> TodayData(cd).amount,
     trend |-> Trend(TodayData(cd).amount, Yesterday(cd)),
     todayIndex |-> TodayIndex(cd)]

StatsOfTruthyArray(cd) ==
    IF Len(cd) = 0
    THEN [kind |-> "stats", total |-> Total(cd), avg |-> Avg(Total(cd), cd),
          max |-> Peak(cd), today |-> Undefined, trend |-> "down",
          todayIndex |-> -1]
    ELSE StatsObject(cd)

\* line 112 and the object of lines 114-135: null for an empty chartData
Stats(cd) == IF Len(cd) = 0 THEN Null ELSE StatsObject(cd)

\* the time zones a browser can be in
Zones == {"UTC", "Indian/Maldives", "America/New_York"}

\* Date.prototype.getTimezoneOffset of the instant, in minutes: UTC minus
\* local.  America/New_York leaves daylight time 2000 ms after the instant 0.
TimezoneOffset(z, instant) ==
    CASE z = "UTC" -> 0
      [] z = "Indian/Maldives" -> -300
      [] z = "America/New_York" -> IF instant < 2000 THEN 240 ELSE 300

\* lines 94-99: cityLocalTime of the instant now
CityLocalTime(now, z, d) ==
    IF d = Null THEN now
    ELSE (now + TimezoneOffset(z, now) * 60000) + d.utc_offset_seconds * 1000

----------------------------------------------------------------------------
(* Responses *)

\* rainfall amounts of the generated series, in tenths of a millimetre
Amounts == {Num(0), Num(35)}

AmountSeqs(maxLen) == UNION {[1..m -> Amounts] : m \in 0..maxLen}

\* n consecutive date keys from first on
Dates(first, n) == [i \in 1..n |-> first + i - 1]

\* daily.time of the generated series: today at any index, or absent
TimeSeqs(maxLen) ==
    {Dates(first, n) : first \in (todayStr - maxLen)..(todayStr + 1), n \in 0..maxLen}

\* a JSON body as fetchData reads it.  error is "" when the body has no error
\* field; hasDaily and hasPrecipitationSum say whether the fields exist;
\* latitude stands for the latitude and longitude pair of the city asked for;
\* utc_offset_seconds is that of the Maldives unless a body is given another.
Body(err, hasDaily, hasPs, time, ps, lat) ==
    [error |-> err, hasDaily |-> hasDaily, latitude |-> lat,
     utc_offset_seconds |-> 18000,
     daily |-> [hasPrecipitationSum |-> hasPs, time |-> time,
                precipitation_sum |-> ps]]

\* bodies of a success status: every series, and the two malformed shapes
OkBodies(times, amountSeqs, cities) ==
    {Body("", TRUE, TRUE, t, ps, c) :
        t \in times, ps \in amountSeqs, c \in cities}
    \cup {Body("", TRUE, FALSE, <<>>, <<>>, c) : c \in cities}
    \cup {Body("", FALSE, FALSE, <<>>, <<>>, c) : c \in cities}

\* the series of the specification's 14-day example: today is the record at
\* index 7
ExampleBody ==
    Body("", TRUE, TRUE, Dates(todayStr - 7, 14),
         <<Num(10), Num(0), Num(35), Num(0), Num(20), Num(0), Num(0), Num(40),
           Num(0), Num(0), Num(0), Num(0), Num(0), Num(0)>>, 1)

\* line 75: the check a success body passes before setData
HasDailyPrecipitation(result) ==
    result.hasDaily /\ result.daily.hasPrecipitationSum

----------------------------------------------------------------------------
(* StatsSpec: the derivations applied to every accepted response *)

NoCalls == <<>>

NoError == ""

ProxyIdle == [pc |-> "idle"]

StatsInit ==
    /\ data \in {Null} \cup
          {r \in OkBodies(TimeSeqs(MaxLen), AmountSeqs(MaxLen), {1}) \cup {ExampleBody} :
              HasDailyPrecipitation(r)}
    /\ chartData = <<>>
    /\ stats = Null
    /\ derived = FALSE
    /\ selectedCity = 1
    /\ loading = FALSE
    /\ error = NoError
    /\ refreshing = FALSE
    /\ isCityMenuOpen = FALSE
    /\ mounted = TRUE
    /\ calls = NoCalls
    /\ proxy = ProxyIdle
    /\ currentTime = 0
    /\ zone = "UTC"
    /\ cityLocalTime = CityLocalTime(0, "UTC", data)

\* the render after setData: both memos are recomputed from data
Derive ==
    /\ ~derived
    /\ chartData' = ChartData(data)
    /\ stats' = Stats(ChartData(data))
    /\ derived' = TRUE
    /\ UNCHANGED <<selectedCity, data, loading, error, refreshing,
                   isCityMenuOpen, mounted, calls, proxy, currentTime, zone,
                   cityLocalTime>>

StatsNext == Derive

StatsSpec == StatsInit /\ [][StatsNext]_vars

----------------------------------------------------------------------------
(* Spec: the App component *)

\* MALDIVES_CITIES, by index
Cities == 1..NumCities

\* what the Retry button passes to fetchData in place of a city: the click
\* event, whose lat and lon are undefined
ClickEvent == 0

\* the responses fetch can resolve with: response.ok, and whether the
\* content-type header includes application/json.  The status number only
\* appears in the messages; the messages here leave it out.
Responses == [ok : BOOLEAN, json : BOOLEAN]

\* bodies of a non-success status: the proxy's envelope, or JSON without error
ErrorBodies ==
    {Body(e, FALSE, FALSE, <<>>, <<>>, 0) : e \in {"Weather API error", ""}}

\* the bodies response.json() can resolve with for a call.  A request for
\* latitude=undefined is never answered with a success status.
BodiesFor(call) ==
    IF call.ok
    THEN OkBodies({<<>>, Dates(todayStr, 1)}, {<<>>, <<Num(35)>>}, {call.city})
    ELSE ErrorBodies

InFlight(call) == call.pc \in {"fetch", "json"}

Init ==
    /\ selectedCity = 1
    /\ data = Null
    /\ loading = TRUE
    /\ error = NoError
    /\ refreshing = FALSE
    /\ isCityMenuOpen = FALSE
    /\ mounted = FALSE
    /\ calls = NoCalls
    /\ chartData = <<>>
    /\ stats = Null
    /\ derived = TRUE
    /\ proxy = ProxyIdle
    /\ currentTime = 0
    /\ zone = "UTC"
    /\ cityLocalTime = 0

\* lines 49-58: fetchData up to its first await.  A call is at "fetch" (line
\* 58), at "json" (line 69), or finished: "stored" past line 79, "failed"
\* through the catch.  timer is "armed" while the timeout of line 54 is
\* pending and "off" once it was cleared or has fired; ok is response.ok
\* while the body is read.
StartFetch(city) ==
    /\ Len(calls) < MaxCalls
    /\ refreshing' = TRUE
    /\ error' = NoError
    /\ calls' = Append(calls, [pc |-> "fetch", city |-> city, timer |-> "armed",
                               ok |-> FALSE])
    /\ UNCHANGED <<data, loading, chartData, stats, derived, cityLocalTime>>

\* lines 80-86: catch and finally
Fail(i, message, timer) ==
    /\ error' = message
    /\ loading' = FALSE
    /\ refreshing' = FALSE
    /\ calls' = [calls EXCEPT ![i].pc = "failed", ![i].timer = timer,
                               ![i].ok = FALSE]
    /\ UNCHANGED <<data, chartData, stats, derived, cityLocalTime>>

\* lines 79, 83-86: setData, finally, and the render that recomputes the memos
Store(i, result) ==
    /\ data' = result
    /\ chartData' = ChartData(result)
    /\ stats' = Stats(ChartData(result))
    /\ loading' = FALSE
    /\ refreshing' = FALSE
    /\ calls' = [calls EXCEPT ![i].pc = "stored", ![i].ok = FALSE]
    /\ cityLocalTime' = CityLocalTime(currentTime, zone, result)
    /\ UNCHANGED <<error, derived>>

\* lines 89-91 at mount
Mount ==
    /\ ~mounted
    /\ mounted' = TRUE
    /\ StartFetch(selectedCity)
    /\ UNCHANGED <<selectedCity, isCityMenuOpen, proxy, currentTime, zone>>

\* line 166; the page below the spinner is rendered only when loading is false
ToggleCityMenu ==
    /\ mounted
    /\ ~loading
    /\ isCityMenuOpen' = ~isCityMenuOpen
    /\ UNCHANGED <<selectedCity, data, loading, error, refreshing, mounted,
                   calls, chartData, stats, derived, proxy, currentTime,
                   zone, cityLocalTime>>

\* lines 208-211, and the effect of lines 89-91 when selectedCity changed
SelectCity(city) ==
    /\ mounted
    /\ ~loading
    /\ isCityMenuOpen
    /\ selectedCity' = city
    /\ isCityMenuOpen' = FALSE
    /\ IF city # selectedCity
       THEN StartFetch(city)
       ELSE UNCHANGED <<data, loading, error, refreshing, calls, chartData,
                        stats, derived, cityLocalTime>>
    /\ UNCHANGED <<mounted, proxy, currentTime, zone>>

\* lines 239-241: the refresh button, disabled while refreshing
Refresh ==
    /\ mounted
    /\ ~loading
    /\ ~refreshing
    /\ StartFetch(selectedCity)
    /\ UNCHANGED <<selectedCity, isCityMenuOpen, mounted, proxy, currentTime, zone>>

\* lines 251-259: the Retry button of the error panel, onClick={fetchData}
Retry ==
    /\ mounted
    /\ ~loading
    /\ error # NoError
    /\ StartFetch(ClickEvent)
    /\ UNCHANGED <<selectedCity, isCityMenuOpen, mounted, proxy, currentTime, zone>>

\* lines 58-69: fetch resolves; the timeout is cleared, the content type checked
FetchResolves(i, response) ==
    /\ calls[i].pc = "fetch"
    /\ calls[i].city = ClickEvent => ~response.ok
    /\ IF ~response.json
       THEN Fail(i, "Server returned non-JSON response", "off")
       ELSE /\ calls' = [calls EXCEPT ![i].pc = "json", ![i].timer = "off",
                                      ![i].ok = response.ok]
            /\ UNCHANGED <<data, loading, error, refreshing, chartData, stats,
                           derived, cityLocalTime>>
    /\ UNCHANGED <<selectedCity, isCityMenuOpen, mounted, proxy, currentTime, zone>>

\* line 58 throws: the request failed; clearTimeout is not reached
FetchRejects(i) ==
    /\ calls[i].pc = "fetch"
    /\ Fail(i, "Failed to fetch", calls[i].timer)
    /\ UNCHANGED <<selectedCity, isCityMenuOpen, mounted, proxy, currentTime, zone>>

\* line 54: the timer fires during fetch and aborts it
Abort(i) ==
    /\ calls[i].pc = "fetch"
    /\ calls[i].timer = "armed"
    /\ Fail(i, "The operation was aborted", "off")
    /\ UNCHANGED <<selectedCity, isCityMenuOpen, mounted, proxy, currentTime, zone>>

\* line 54: the timer of a call whose fetch was rejected fires; abort changes nothing
StaleTimeout(i) ==
    /\ ~InFlight(calls[i])
    /\ calls[i].timer = "armed"
    /\ calls' = [calls EXCEPT ![i].timer = "off"]
    /\ UNCHANGED <<selectedCity, data, loading, error, refreshing,
                   isCityMenuOpen, mounted, chartData, stats, derived, proxy, currentTime,
                   zone, cityLocalTime>>

PassesStatusOnly(call, result) == call.ok

\* lines 71-77: the checks between response.json() and setData
PassesChecks(call, result) == call.ok /\ HasDailyPrecipitation(result)

\* lines 72, 76: the message thrown by the failed check
CheckMessage(call, result) ==
    IF ~call.ok
    THEN (IF result.error # "" THEN result.error ELSE "Weather service error")
    ELSE "Invalid data format received"

\* lines 69-79: response.json() resolves
JsonResolves(i, result) ==
    /\ calls[i].pc = "json"
    /\ IF PassesChecks(calls[i], result)
       THEN Store(i, result)
       ELSE Fail(i, CheckMessage(calls[i], result), calls[i].timer)
    /\ UNCHANGED <<selectedCity, isCityMenuOpen, mounted, proxy, currentTime, zone>>

\* line 69 throws: the body is not JSON, or the connection broke while reading
JsonRejects(i) ==
    /\ calls[i].pc = "json"
    /\ Fail(i, "Unexpected end of JSON input", calls[i].timer)
    /\ UNCHANGED <<selectedCity, isCityMenuOpen, mounted, proxy, currentTime, zone>>

Next ==
    \/ Mount
    \/ ToggleCityMenu
    \/ \E city \in Cities : SelectCity(city)
    \/ Refresh
    \/ Retry
    \/ \E i \in 1..Len(calls), response \in Responses : FetchResolves(i, response)
    \/ \E i \in 1..Len(calls) : FetchRejects(i)
    \/ \E i \in 1..Len(calls) : Abort(i)
    \/ \E i \in 1..Len(calls) : StaleTimeout(i)
    \/ \E i \in 1..Len(calls) :
          \E result \in BodiesFor(calls[i]) : JsonResolves(i, result)
    \/ \E i \in 1..Len(calls) : JsonRejects(i)

Spec == Init /\ [][Next]_vars

----------------------------------------------------------------------------
(* ClockSpec: the clock of lines 40-46 and cityLocalTime *)

\* utc_offset_seconds of the stored response
UtcOffsets == {0, 18000, 19800, -3600}

ClockInit ==
    /\ selectedCity = 1
    /\ data \in {Null} \cup
          {[Body("", TRUE, TRUE, <<>>, <<>>, 1) EXCEPT !.utc_offset_seconds = o] :
              o \in UtcOffsets}
    /\ loading = FALSE
    /\ error = NoError
    /\ refreshing = FALSE
    /\ isCityMenuOpen = FALSE
    /\ mounted = TRUE
    /\ calls = NoCalls
    /\ chartData = <<>>
    /\ stats = Null
    /\ derived = TRUE
    /\ proxy = ProxyIdle
    /\ currentTime = 0
    /\ zone \in Zones
    /\ cityLocalTime = CityLocalTime(0, zone, data)

TickAccumulating(elapsed) ==
    /\ currentTime + elapsed <= MaxSeconds * 1000
    /\ currentTime' = currentTime + elapsed
    /\ cityLocalTime' = cityLocalTime + 1000
    /\ UNCHANGED <<selectedCity, data, loading, error, refreshing,
                   isCityMenuOpen, mounted, calls, chartData, stats, derived,
                   proxy, zone>>

\* lines 42-44 and 94-99: the interval callback stores new Date(), elapsed
\* milliseconds after the stored instant, and the render recomputes
\* cityLocalTime
Tick(elapsed) ==
    /\ currentTime + elapsed <= MaxSeconds * 1000
    /\ currentTime' = currentTime + elapsed
    /\ cityLocalTime' = CityLocalTime(currentTime + elapsed, zone, data)
    /\ UNCHANGED <<selectedCity, data, loading, error, refreshing,
                   isCityMenuOpen, mounted, calls, chartData, stats, derived,
                   proxy, zone>>

\* the interval of line 44 fires after 1000 ms, or later when the page is busy
ClockNext == \E elapsed \in {1000, 1250} : Tick(elapsed)

ClockSpec == ClockInit /\ [][ClockNext]_vars

----------------------------------------------------------------------------
(* ProxySpec: GET /api/weather of the proxy server *)

\* a query parameter that the request does not carry
Absent == "<absent>"

\* !value of a query parameter: absent or the empty string
Falsy(value) == value \in {Absent, ""}

\* the queries a request can carry
Queries ==
    [latitude : {Absent, "", "4.1755", "undefined"},
     longitude : {Absent, "", "73.5093"},
     past_days : {Absent, "", "0", "3"},
     forecast_days : {Absent, "3"}]

\* a JSON text: whether it parses, the value it denotes, and its layout
JsonText(valid, value, layout) == [valid |-> valid, value |-> value, layout |-> layout]

\* a text that is not JSON
PlainText(message) == JsonText(FALSE, message, "text")

\* JSON.parse of a valid text
JsonParse(text) == text.value

\* JSON.stringify, what res.json sends
JsonStringify(value) == JsonText(TRUE, value, "compact")

\* what the upstream weather API can answer: a status and a body text
UpstreamAnswers ==
    [status : {200, 400, 500},
     body : {JsonText(TRUE, "forecast", "compact"),
             JsonText(TRUE, "forecast", "pretty"),
             JsonText(TRUE, "reason", "compact"),
             JsonText(FALSE, "", "html")}]

\* response.ok
Ok(answer) == answer.status >= 200 /\ answer.status <= 299

NoAnswer == [status |-> 0, body |-> JsonText(FALSE, "", "none")]

NoUrl == [latitude |-> Absent, longitude |-> Absent, past_days |-> Absent,
          forecast_days |-> Absent]

\* res.status(status).json(value)
Send(status, value) == [status |-> status, body |-> JsonStringify(value)]

\* the server after startServer: no request yet; the App is not part of it
ProxyInit == Init

\* line 39: the upstream URL's parameters, past_days || 7 and forecast_days || 7
UpstreamUrl(query) ==
    [latitude |-> query.latitude,
     longitude |-> query.longitude,
     past_days |-> IF Falsy(query.past_days) THEN "7" ELSE query.past_days,
     forecast_days |-> IF Falsy(query.forecast_days) THEN "7"
                       ELSE query.forecast_days]

\* lines 31-42: a request arrives; 400 without latitude or longitude, else the
\* upstream fetch is started
Request(query) ==
    /\ proxy.pc \in {"idle", "done"}
    /\ IF Falsy(query.latitude) \/ Falsy(query.longitude)
       THEN proxy' = [pc |-> "done", query |-> query, url |-> NoUrl,
                      reached |-> FALSE, answer |-> NoAnswer,
                      sent |-> <<Send(400, [error |-> "Latitude and longitude are required"])>>]
       ELSE proxy' = [pc |-> "fetch", query |-> query, url |-> UpstreamUrl(query),
                      reached |-> FALSE, answer |-> NoAnswer, sent |-> <<>>]
    /\ UNCHANGED appVars

\* lines 42-48: the upstream fetch resolves; the body is read as text when the
\* status is not a success, as JSON otherwise
UpstreamResponds(answer) ==
    /\ proxy.pc = "fetch"
    /\ proxy' = [proxy EXCEPT !.pc = IF Ok(answer) THEN "json" ELSE "text",
                              !.reached = TRUE, !.answer = answer]
    /\ UNCHANGED appVars

ErrorStatusAlways500(answer) == 500

\* line 46: the status of the envelope for an upstream error
ErrorStatus(answer) == answer.status

\* lines 44-46: the error text is read, or replaced by "Unknown error"
TextSettles(read) ==
    /\ proxy.pc = "text"
    /\ proxy' = [proxy EXCEPT
          !.pc = "done",
          !.sent = Append(@, Send(ErrorStatus(proxy.answer),
                                  [error |-> <<"Weather API error", proxy.answer.status>>,
                                   details |-> IF read THEN proxy.answer.body
                                               ELSE PlainText("Unknown error")]))]
    /\ UNCHANGED appVars

\* lines 50-52: the catch
ProxyError(message) ==
    Send(500, [error |-> "Failed to fetch weather data from source",
               details |-> PlainText(message)])

\* line 42 throws: the upstream cannot be reached
UpstreamUnreachable ==
    /\ proxy.pc = "fetch"
    /\ proxy' = [proxy EXCEPT !.pc = "done",
                              !.sent = Append(@, ProxyError("fetch failed"))]
    /\ UNCHANGED appVars

\* lines 48-52: response.json() settles; the parsed data is sent, or the catch
\* answers when the body does not parse
JsonSettles ==
    /\ proxy.pc = "json"
    /\ proxy' = [proxy EXCEPT
          !.pc = "done",
          !.sent = Append(@, IF proxy.answer.body.valid
                             THEN Send(200, JsonParse(proxy.answer.body))
                             ELSE ProxyError("Unexpected token"))]
    /\ UNCHANGED appVars

ProxyNext ==
    \/ \E query \in Queries : Request(query)
    \/ \E answer \in UpstreamAnswers : UpstreamResponds(answer)
    \/ \E read \in BOOLEAN : TextSettles(read)
    \/ UpstreamUnreachable
    \/ JsonSettles

ProxySpec == ProxyInit /\ [][ProxyNext]_vars

----------------------------------------------------------------------------
(* Properties of the derivations, under StatsSpec *)

\* the series is a DailySeries: as many amounts as dates, and at least one
ValidSeries ==
    /\ data # Null
    /\ Len(data.daily.time) = Len(data.daily.precipitation_sum)
    /\ Len(data.daily.time) > 0

\* 0-based index of the first record dated todayStr; only used when there is one
FirstToday ==
    (CHOOSE i \in 1..Len(data.daily.time) :
        /\ data.daily.time[i] = todayStr
        /\ \A j \in 1..(i - 1) : data.daily.time[j] # todayStr) - 1

TodayFound == \E i \in 1..Len(data.daily.time) : data.daily.time[i] = todayStr

\* the sum, in tenths, of the amounts at the 0-based indices lo..hi
RECURSIVE SumOfAmounts(_, _)
SumOfAmounts(lo, hi) ==
    IF hi < lo THEN 0
    ELSE data.daily.precipitation_sum[hi + 1].num + SumOfAmounts(lo, hi - 1)

WindowStart == IF FirstToday - 6 > 0 THEN FirstToday - 6 ELSE 0

\* total is the sum of the records max(0, t-6)..t when today is at index t
TotalIsWindowSum ==
    (derived /\ ValidSeries /\ TodayFound) =>
        NumEq(stats.total, Num(SumOfAmounts(WindowStart, FirstToday)))

\* C1 as stated: total is the exact sum of the 7 records ending at and
\* including today, clamped at the series start, and the 14-day example
\* series has total 10.5.
C1_TotalAsStated ==
    /\ TotalIsWindowSum
    /\ (derived /\ data = ExampleBody) => NumEq(stats.total, Num(105))

\* C1 amended: total is the exact sum of the 7 records ending at and
\* including today, clamped at the series start; the 14-day example series
\* (window d1..d7) has total 9.5.
C1_TotalIsWindowSum ==
    /\ TotalIsWindowSum
    /\ (derived /\ data = ExampleBody) => NumEq(stats.total, Num(95))

\* today at index 7 of the example: the window leaves out the record at index 0
C1_Witness ==
    /\ derived
    /\ data = ExampleBody
    /\ stats # Null
    /\ stats.todayIndex = 7

\* 0-based index of the record chosen as today: todayStr's, else the last one
ChosenIndex == IF TodayFound THEN FirstToday ELSE Len(data.daily.time) - 1

\* the amount of the record before the chosen one, 0 when it is the first
AmountBeforeChosen ==
    IF ChosenIndex = 0 THEN Num(0)
    ELSE data.daily.precipitation_sum[ChosenIndex]

\* C2: today is the amount of the record chosen as today, and trend is "up"
\* exactly when today >= the amount of the record just before it (0 when the
\* chosen record is the first), whether todayStr was found or the fallback
\* record is used.
C2_TrendAgainstRecordBefore ==
    (derived /\ ValidSeries) =>
        /\ stats.today = data.daily.precipitation_sum[ChosenIndex + 1]
        /\ (stats.trend = "up") <=> Gte(stats.today, AmountBeforeChosen)
        /\ stats.trend \in {"up", "down"}

\* C3: max is at least every amount of the whole series and is one of them.
C3_PeakOverWholeSeries ==
    (derived /\ ValidSeries) =>
        /\ \A i \in 1..Len(data.daily.precipitation_sum) :
              Gte(stats.max, data.daily.precipitation_sum[i])
        /\ \E i \in 1..Len(data.daily.precipitation_sum) :
              stats.max = data.daily.precipitation_sum[i]

\* the peak is a forecast day's amount, larger than every amount up to today
C3_Witness ==
    /\ derived
    /\ ValidSeries
    /\ TodayFound
    /\ stats.max = Num(35)
    /\ \A i \in 1..(FirstToday + 1) : data.daily.precipitation_sum[i] = Num(0)

\* the number of records in the weekly window
WindowLength ==
    IF TodayFound THEN FirstToday - WindowStart + 1
    ELSE IF Len(data.daily.time) < 7 THEN Len(data.daily.time) ELSE 7

\* C4: avg * windowLength = total, windowLength being the clamped window size.
C4_AvgOverWindowLength ==
    (derived /\ ValidSeries) =>
        /\ IsNumber(stats.avg)
        /\ IsNumber(stats.total)
        /\ stats.avg.num * WindowLength * stats.total.den
              = stats.total.num * stats.avg.den

\* a window of fewer than 7 records with rain in it
C4_Witness ==
    /\ derived
    /\ ValidSeries
    /\ WindowLength < 7
    /\ IsNumber(stats.total)
    /\ stats.total.num > 0

\* C6: with no data, or a response whose daily.time is empty, stats is null.
C6_EmptySeriesGivesNull ==
    (derived /\ (data = Null \/ Len(data.daily.time) = 0)) =>
        /\ chartData = <<>>
        /\ stats = Null

\* a stored response with no dates
C6_Witness ==
    /\ derived
    /\ data # Null
    /\ Len(data.daily.time) = 0
    /\ stats = Null

----------------------------------------------------------------------------
(* Properties of fetchData, under Spec *)

\* C5: a series whose dates and amounts differ in length is rejected before
\* derivation: no chart records and no statistics are derived from it.
C5_MismatchRejected ==
    (data # Null /\ Len(data.daily.time) # Len(data.daily.precipitation_sum)) =>
        /\ chartData = <<>>
        /\ stats = Null

\* C7: a fetchData call that fails ends with an error message set and data as
\* it was; a call stores its body only after fetch resolved with a JSON content
\* type, a success status and a body holding daily.precipitation_sum; nothing
\* else changes data.
C7_FailedFetchKeepsData ==
    [][/\ \A i \in 1..Len(calls) :
            /\ (InFlight(calls[i]) /\ calls'[i].pc = "failed") =>
                  (error' # NoError /\ data' = data)
            /\ (InFlight(calls[i]) /\ calls'[i].pc = "stored") =>
                  /\ calls[i].pc = "json"
                  /\ calls[i].ok
                  /\ HasDailyPrecipitation(data')
       /\ data' # data =>
            \E i \in 1..Len(calls) : calls[i].pc = "json" /\ calls'[i].pc = "stored"
      ]_vars

\* a call has failed while an earlier response is stored
C7_Witness ==
    /\ data # Null
    /\ error # NoError
    /\ \E i \in 1..Len(calls) : calls[i].pc = "failed"
    /\ \A i \in 1..Len(calls) : ~InFlight(calls[i])

AllSettled == \A i \in 1..Len(calls) : ~InFlight(calls[i])

\* C8: once every fetch in flight has settled, data and error are those of the
\* call started last: if it stored a response, data is the selected city's and
\* no error is shown; if it failed, its error is shown.
C8_LastStartedWins ==
    (Len(calls) > 0 /\ AllSettled) =>
        /\ calls[Len(calls)].pc = "stored" =>
              /\ data # Null
              /\ data.latitude = calls[Len(calls)].city
              /\ data.latitude = selectedCity
              /\ error = NoError
        /\ calls[Len(calls)].pc = "failed" => error # NoError

\* C9: a call that has not finished can still be aborted by its timeout.
C9_TimeoutCoversWholeCall ==
    \A i \in 1..Len(calls) : InFlight(calls[i]) => calls[i].timer = "armed"

----------------------------------------------------------------------------
(* Properties of the proxy, under ProxySpec *)

HasCoordinates == ~Falsy(proxy.query.latitude) /\ ~Falsy(proxy.query.longitude)

IsEnvelope(value) == DOMAIN value = {"error", "details"}

\* C10: a request carrying latitude and longitude is answered exactly once:
\* with the upstream's JSON value and status 200 when upstream succeeds, with
\* an {error, details} envelope and the upstream's status when upstream
\* answers a non-success status, with an envelope and status 500 when the
\* upstream cannot be reached or its body does not parse; nothing is sent
\* before that.  past_days and forecast_days are 7 when absent.
C10_ProxyAnswersOnce ==
    (proxy.pc # "idle" /\ HasCoordinates) =>
        /\ proxy.query.past_days = Absent => proxy.url.past_days = "7"
        /\ proxy.query.forecast_days = Absent => proxy.url.forecast_days = "7"
        /\ ~Falsy(proxy.query.past_days) => proxy.url.past_days = proxy.query.past_days
        /\ ~Falsy(proxy.query.forecast_days) =>
              proxy.url.forecast_days = proxy.query.forecast_days
        /\ proxy.url.latitude = proxy.query.latitude
        /\ proxy.url.longitude = proxy.query.longitude
        /\ proxy.pc # "done" => proxy.sent = <<>>
        /\ proxy.pc = "done" =>
              /\ Len(proxy.sent) = 1
              /\ IF proxy.reached /\ Ok(proxy.answer) /\ proxy.answer.body.valid
                 THEN /\ proxy.sent[1].status = 200
                      /\ JsonParse(proxy.sent[1].body) = JsonParse(proxy.answer.body)
                 ELSE IF proxy.reached /\ ~Ok(proxy.answer)
                 THEN /\ proxy.sent[1].status = proxy.answer.status
                      /\ IsEnvelope(JsonParse(proxy.sent[1].body))
                 ELSE /\ proxy.sent[1].status = 500
                      /\ IsEnvelope(JsonParse(proxy.sent[1].body))

\* an upstream error status has been passed on for a request with defaults
C10_Witness ==
    /\ proxy.pc = "done"
    /\ HasCoordinates
    /\ proxy.query.past_days = Absent
    /\ proxy.reached
    /\ proxy.answer.status = 400
    /\ proxy.sent[1].status = 400

----------------------------------------------------------------------------
(* Properties of the clock, under ClockSpec *)

\* C11: the local time shown is the latest tick's instant
\* + consumer timezone offset minutes * 60000 + utc_offset_seconds * 1000, so
\* it never carries anything over from an earlier tick; with no data it is
\* the instant itself.
C11_LocalTimeFromLatestTick ==
    IF data = Null
    THEN cityLocalTime = currentTime
    ELSE cityLocalTime
           = currentTime + TimezoneOffset(zone, currentTime) * 60000
             + data.utc_offset_seconds * 1000

\* ticks of uneven length, the browser's offset having changed between them
C11_Witness ==
    /\ data # Null
    /\ data.utc_offset_seconds = 18000
    /\ zone = "America/New_York"
    /\ currentTime = 3250
    /\ cityLocalTime = 3250 + 300 * 60000 + 18000 * 1000

----------------------------------------------------------------------------
(* Further properties of fetchData and the buttons, under Spec *)

\* C12: refreshing is true whenever a fetchData call is in flight.
C12_RefreshingWhileInFlight ==
    (\E i \in 1..Len(calls) : InFlight(calls[i])) => refreshing

\* C14: every fetch is started with the selected city: each call carries a
\* city of MALDIVES_CITIES, and the call started last carries selectedCity.
C14_FetchCarriesSelectedCity ==
    /\ \A i \in 1..Len(calls) : calls[i].city \in Cities
    /\ Len(calls) > 0 => calls[Len(calls)].city = selectedCity

----------------------------------------------------------------------------
(* The weekly window, under StatsSpec *)

\* C13: whenever stats is not null, the weekly window is a run of 1 to 7
\* consecutive records of chartData whose last record is the one reported as
\* today: todayStr's record, or the last record of the series when todayStr
\* is absent.
C13_TodayEndsWindow ==
    (derived /\ stats # Null) =>
        LET window == WeeklyData(chartData)
            last == ChosenIndex + 1
        IN  /\ Len(window) >= 1
            /\ Len(window) <= 7
            /\ Len(window) <= last
            /\ \A k \in 1..Len(window) :
                  window[k] = chartData[last - Len(window) + k]
            /\ stats.today = chartData[last].amount
            /\ stats.avg # NaN \/ stats.total = NaN

\* todayStr is absent from a series of more than 7 records
C13_Witness ==
    /\ derived
    /\ stats # Null
    /\ ~TodayFound
    /\ Len(chartData) > 7
    /\ stats.today = Num(35)
    /\ stats.total = Num(35)

====
